---- MODULE Spec2Model ----
(***************************************************************************)
(* A model of the arm-generic-timer driver (src/src/lib.rs): the frame     *)
(* layouts, the CNTControlBase and CNTCTLBase drivers and the comparator   *)
(* Timer, with the hardware counter as the environment.                    *)
(*                                                                         *)
(* Machine integers keep their width.  TLC's integers are 32-bit, so a u32 *)
(* is a little-endian sequence of 4 byte limbs, a u64 of 8 and a u128 of   *)
(* 16, and the arithmetic is carried out limb by limb.                     *)
(***************************************************************************)
EXTENDS Integers, Sequences, FiniteSets, TLC

\* ------------------------------------------------------------------------
\* Fixed-width unsigned integers as little-endian byte limbs
\* ------------------------------------------------------------------------

Base == 2^8
U32Len == 4
U64Len == 8
U128Len == 16

Min(a, b) == IF a <= b THEN a ELSE b
Max(a, b) == IF a >= b THEN a ELSE b

\* A function on 1..n as a sequence value (a tuple, with its limbs evaluated).
AsSeq(f) == f \o <<>>

Zeros(n) == AsSeq([i \in 1..n |-> 0])
Ones(n) == AsSeq([i \in 1..n |-> Base - 1])

\* Limb i of x, zero beyond its length.
Limb(x, i) == IF i <= Len(x) THEN x[i] ELSE 0

\* x zero-extended (or truncated, as a Rust `as` cast does) to n limbs.
Resize(x, n) == AsSeq([i \in 1..n |-> Limb(x, i)])

\* The limbs dropped by Resize(x, n) are all zero: the cast loses nothing.
Fits(x, n) == \A i \in 1..Len(x) : i > n => x[i] = 0

\* The n-limb representation of a natural number v < 2^31.
FromNat(v, n) ==
    AsSeq([i \in 1..n |-> IF i <= 4 THEN (v \div Base^(i - 1)) % Base ELSE 0])

RECURSIVE AddCarry(_, _, _)
\* a + b + carry for a and b of equal length n, as n + 1 limbs (the last
\* limb is the carry out).
AddCarry(a, b, carry) ==
    IF a = <<>> THEN <<carry>>
    ELSE LET s == Head(a) + Head(b) + carry
         IN  <<s % Base>> \o AddCarry(Tail(a), Tail(b), s \div Base)

\* The exact sum of a and b, one limb longer than the longer of the two.
AddFull(a, b) ==
    LET n == Max(Len(a), Len(b)) IN AddCarry(Resize(a, n), Resize(b, n), 0)

RECURSIVE MulLimb(_, _, _)
\* a * m + carry for a single limb m, as Len(a) + 1 limbs.
MulLimb(a, m, carry) ==
    IF a = <<>> THEN <<carry>>
    ELSE LET p == Head(a) * m + carry
         IN  <<p % Base>> \o MulLimb(Tail(a), m, p \div Base)

RECURSIVE MulFull(_, _)
\* The exact product of a and b, as Len(a) + Len(b) limbs.
MulFull(a, b) ==
    IF b = <<>> THEN Zeros(Len(a))
    ELSE LET n == Len(a) + Len(b)
         IN  Resize(AddCarry(Resize(MulLimb(a, Head(b), 0), n),
                             <<0>> \o MulFull(a, Tail(b)), 0), n)

RECURSIVE DivRem(_, _)
\* Quotient (same length as a) and remainder of a by a small divisor
\* d < 2^23, long division from the most significant limb down.
DivRem(a, d) ==
    IF a = <<>> THEN [q |-> <<>>, r |-> 0]
    ELSE LET hi  == DivRem(Tail(a), d)
             cur == hi.r * Base + Head(a)
         IN  [q |-> <<cur \div d>> \o hi.q, r |-> cur % d]

DivSmall(a, d) == DivRem(a, d).q

\* a <= b as numbers, whatever their lengths: they are equal, or b has the
\* larger limb at the most significant place where they differ.
LessEq(a, b) ==
    LET n == Max(Len(a), Len(b))
    IN  \A i \in 1..n :
            Limb(a, i) > Limb(b, i) => \E j \in (i + 1)..n : Limb(a, j) < Limb(b, j)

\* a = b as numbers, whatever their lengths.
NumEq(a, b) == LessEq(a, b) /\ LessEq(b, a)

IsZero(a) == \A i \in 1..Len(a) : a[i] = 0

\* ------------------------------------------------------------------------
\* Bit operations
\* ------------------------------------------------------------------------

\* Bit j of a limb.
BitOf(x, j) == (x \div 2^j) % 2

\* Bitwise AND and OR of two limbs.
AndNat(x, y) ==
    LET b(j) == BitOf(x, j) * BitOf(y, j)
    IN  b(0) + 2 * b(1) + 4 * b(2) + 8 * b(3)
        + 16 * b(4) + 32 * b(5) + 64 * b(6) + 128 * b(7)
OrNat(x, y) == x + y - AndNat(x, y)

\* Limb-wise AND, OR and NOT of values of equal width.
AndL(a, b) == AsSeq([i \in 1..Len(a) |-> AndNat(a[i], b[i])])
OrL(a, b) == AsSeq([i \in 1..Len(a) |-> OrNat(a[i], b[i])])
NotL(a) == AsSeq([i \in 1..Len(a) |-> Base - 1 - a[i]])

\* Bit k (0 = least significant) of a.
Bit(a, k) ==
    IF (k \div 8) + 1 > Len(a) THEN 0 ELSE BitOf(a[(k \div 8) + 1], k % 8)

\* Bit k of a after a logical shift right (left) by s bits.
ShrBit(a, s, k) == Bit(a, k + s)
ShlBit(a, s, k) == IF k >= s THEN Bit(a, k - s) ELSE 0

\* Logical shifts within the width of a, by s bits.
ShrL(a, s) ==
    AsSeq([i \in 1..Len(a) |->
        LET b(j) == ShrBit(a, s, 8 * (i - 1) + j)
        IN  b(0) + 2 * b(1) + 4 * b(2) + 8 * b(3)
            + 16 * b(4) + 32 * b(5) + 64 * b(6) + 128 * b(7)])
ShlL(a, s) ==
    AsSeq([i \in 1..Len(a) |->
        LET b(j) == ShlBit(a, s, 8 * (i - 1) + j)
        IN  b(0) + 2 * b(1) + 4 * b(2) + 8 * b(3)
            + 16 * b(4) + 32 * b(5) + 64 * b(6) + 128 * b(7)])

\* ------------------------------------------------------------------------
\* State
\* ------------------------------------------------------------------------

VARIABLES
    \* the build and the caller
    overflowChecks, \* the build panics on integer overflow (debug) or wraps
    u64Align,       \* the target's alignment of u64, in bytes
    pc,             \* where the caller stands: "idle", inside an operation, "panicked"
    op,             \* the operation called last, "none" before the first
    prevOp,         \* the operation called before it
    arg,            \* its arguments
    result,         \* what it returned
    nOps,           \* the number of calls made so far
    \* the computation of a layout's size
    layout, fieldIdx, offset, structAlign, offsets, size,
    \* TimerRegs, the Timer over it and the counter it is compared with
    cval, tval, ctl, frequency, count,
    cval0, ctl0, count0, \* cval, the control register as read and count when op was called
    trace,          \* the register accesses of op so far, in order
    spins,          \* the polls of op that found ISTATUS clear (capped at MaxSpins)
    \* CntCtlBase
    cntfrq, cntnsar, cnttidr, cntacr, cntvoff,
    \* CntControlBase
    cntfid,
    cntcr, cntscr, cntcv, cntid,
    cntcr0,         \* cntcr when op was called
    scaleArg,       \* the argument of the last enable_scaling call, if any
    \* CntBase or CntEl0Base and the Timer borrowed from its driver
    frame,          \* which of the two layouts the driver is over
    mem,            \* the frame's registers, by byte offset
    live            \* the field a live Timer is over, "none" without one

buildVars == <<overflowChecks, u64Align>>
callVars == <<pc, op, prevOp, arg, result, nOps>>
layoutVars == <<layout, fieldIdx, offset, structAlign, offsets, size>>
timerRegs == <<cval, tval, ctl>>
timerVars == <<cval, tval, ctl, frequency, count, cval0, ctl0, count0, trace, spins>>
ctlRegs == <<cntfrq, cntnsar, cnttidr, cntacr, cntvoff>>
controlRegs == <<cntfid>>
counterRegs == <<cntcr, cntscr, cntcv, cntid>>
counterVars == <<counterRegs, cntcr0, scaleArg>>
cntVars == <<frame, mem, live>>
vars == <<buildVars, callVars, layoutVars, timerVars, ctlRegs, controlRegs,
          counterVars, cntVars>>

NoResult == [kind |-> "none"]
Unit == [kind |-> "unit"]
NoArg == [kind |-> "none"]

\* The values the variables of a driver hold while another one is modelled.
LayoutUnused ==
    /\ layout = "none" /\ fieldIdx = 0 /\ offset = 0
    /\ structAlign = 0 /\ offsets = <<>> /\ size = 0
TimerUnused ==
    /\ cval = Zeros(U64Len) /\ tval = Zeros(U32Len) /\ ctl = Zeros(U32Len)
    /\ frequency = Zeros(U32Len) /\ count = Zeros(U64Len)
    /\ cval0 = Zeros(U64Len) /\ ctl0 = Zeros(U32Len) /\ count0 = Zeros(U64Len)
    /\ trace = <<>> /\ spins = 0
CtlUnused ==
    /\ cntfrq = Zeros(U32Len) /\ cntnsar = Zeros(U32Len) /\ cnttidr = Zeros(U32Len)
    /\ cntacr = <<>> /\ cntvoff = <<>>
ControlUnused == cntfid = <<>>
CounterUnused ==
    /\ cntcr = Zeros(U32Len) /\ cntscr = Zeros(U32Len) /\ cntcv = Zeros(U64Len)
    /\ cntid = Zeros(U32Len) /\ cntcr0 = Zeros(U32Len) /\ scaleArg = [some |-> FALSE]
CntUnused == frame = "none" /\ mem = <<>> /\ live = "none"
CallIdle ==
    /\ pc = "idle" /\ op = "none" /\ prevOp = "none"
    /\ arg = NoArg /\ result = NoResult /\ nOps = 0

\* ------------------------------------------------------------------------
\* Frame layouts (#[repr(C, align(4))] structs)
\* ------------------------------------------------------------------------

F(name, ty, n) == [name |-> name, ty |-> ty, n |-> n]

CntControlBase == <<
    F("cntcr", "u32", 1), F("cntsr", "u32", 1), F("cntcv", "u64", 1),
    F("cntscr", "u32", 1), F("reserved_14", "u32", 2), F("cntid", "u32", 1),
    F("cntfid", "u32", 40), F("impdef_0c0", "u32", 16),
    F("reserved_100", "u32", 948), F("counter_id", "u32", 12) >>

CntReadBase == <<
    F("cntcv", "u64", 1), F("reserved_8", "u32", 1010), F("counter_id", "u32", 12) >>

CntCtlBase == <<
    F("cntfrq", "u32", 1), F("cntnsar", "u32", 1), F("cnttidr", "u32", 1),
    F("reserved_00c", "u32", 13), F("cntacr", "u32", 8), F("reserved_060", "u32", 8),
    F("cntvoff", "u64", 8), F("reserved_0c0", "u32", 16), F("impdef_100", "u32", 448),
    F("reserved_800", "u32", 496), F("impdef_fc0", "u32", 4),
    F("counter_id", "u32", 12) >>

\* TimerRegs without its time value register.
TimerRegsWithoutTval == <<
    F("cval", "u64", 1), F("ctl", "u32", 1) >>

TimerRegs == <<
    F("cval", "u64", 1), F("tval", "u32", 1), F("ctl", "u32", 1) >>

\* CntBase with one word too many of reserved padding.
CntBaseOneWordLonger == <<
    F("cntpct", "u64", 1), F("cntvct", "u64", 1), F("cntfrq", "u32", 1),
    F("cntel0acr", "u32", 1), F("cntvoff", "u64", 1),
    F("cntp", "TimerRegs", 1), F("cntv", "TimerRegs", 1),
    F("reserved", "u32", 997), F("counter_id", "u32", 12) >>

CntBase == <<
    F("cntpct", "u64", 1), F("cntvct", "u64", 1), F("cntfrq", "u32", 1),
    F("cntel0acr", "u32", 1), F("cntvoff", "u64", 1),
    F("cntp", "TimerRegs", 1), F("cntv", "TimerRegs", 1),
    F("reserved", "u32", 996), F("counter_id", "u32", 12) >>

CntEl0Base == <<
    F("cntpct", "u64", 1), F("cntvct", "u64", 1), F("cntfrq", "u32", 1),
    F("reserved_014", "u32", 3),
    F("cntp", "TimerRegs", 1), F("cntv", "TimerRegs", 1),
    F("reserved", "u32", 996), F("counter_id", "u32", 12) >>

Frames == {"CntControlBase", "CntReadBase", "CntCtlBase", "CntBase", "CntEl0Base"}
Layouts == Frames \cup {"TimerRegs"}

Fields(l) ==
    CASE l = "CntControlBase" -> CntControlBase
      [] l = "CntReadBase" -> CntReadBase
      [] l = "CntCtlBase" -> CntCtlBase
      [] l = "CntBase" -> CntBase
      [] l = "CntEl0Base" -> CntEl0Base
      [] l = "TimerRegs" -> TimerRegs

\* The place of the field called name among the fields of layout l.
FieldIndex(l, name) ==
    CHOOSE i \in 1..Len(Fields(l)) : Fields(l)[i].name = name

\* The alignment every layout asks for: #[repr(C, align(4))].
ReprAlign == 4
U32Size == 4
U64Size == 8

AlignUp(n, a) == ((n + a - 1) \div a) * a

RECURSIVE TypeSize(_, _), TypeAlign(_, _), PlaceAll(_, _, _)

\* A field of type ty repeated n times goes to the next offset aligned for ty.
\* st is [offset, align]: the end of the fields placed so far and the largest
\* alignment among them.
PlaceField(f, st, a64) ==
    LET at == AlignUp(st.offset, TypeAlign(f.ty, a64))
    IN  [at |-> at,
         offset |-> at + f.n * TypeSize(f.ty, a64),
         align |-> Max(st.align, TypeAlign(f.ty, a64))]

PlaceAll(fields, st, a64) ==
    IF fields = <<>> THEN st
    ELSE PlaceAll(Tail(fields), PlaceField(Head(fields), st, a64), a64)

\* size_of: the end of the last field, rounded up to the struct's alignment.
StructEnd(st) == AlignUp(st.offset, st.align)

LayoutStart == [offset |-> 0, align |-> ReprAlign]

TypeSize(ty, a64) ==
    CASE ty = "u32" -> U32Size
      [] ty = "u64" -> U64Size
      [] OTHER -> StructEnd(PlaceAll(Fields(ty), LayoutStart, a64))

TypeAlign(ty, a64) ==
    CASE ty = "u32" -> U32Size
      [] ty = "u64" -> a64
      [] OTHER -> PlaceAll(Fields(ty), LayoutStart, a64).align

\* The alignments of u64 among the targets the crate builds for (8 on
\* AArch64 and Arm, 4 on 32-bit x86 hosts).
U64Aligns == {4, 8}

InitLayout ==
    /\ overflowChecks = FALSE
    /\ u64Align \in U64Aligns
    /\ CallIdle /\ TimerUnused /\ CtlUnused /\ ControlUnused
    /\ CounterUnused /\ CntUnused
    /\ layout \in Layouts
    /\ fieldIdx = 0
    /\ offset = LayoutStart.offset
    /\ structAlign = LayoutStart.align
    /\ offsets = <<>>
    /\ size = 0

\* The compiler places the next field of the layout.
LayoutField ==
    /\ pc = "idle"
    /\ layout \in Layouts
    /\ fieldIdx < Len(Fields(layout))
    /\ LET st == PlaceField(Fields(layout)[fieldIdx + 1],
                            [offset |-> offset, align |-> structAlign], u64Align)
       IN  /\ offset' = st.offset
           /\ structAlign' = st.align
           /\ offsets' = Append(offsets, st.at)
    /\ fieldIdx' = fieldIdx + 1
    /\ UNCHANGED <<layout, size, buildVars, callVars, timerVars, ctlRegs, controlRegs,
                   counterVars, cntVars>>

\* All fields are placed: core::mem::size_of of the layout.
LayoutFinish ==
    /\ pc = "idle"
    /\ layout \in Layouts
    /\ fieldIdx = Len(Fields(layout))
    /\ size' = StructEnd([offset |-> offset, align |-> structAlign])
    /\ pc' = "done"
    /\ UNCHANGED <<layout, fieldIdx, offset, structAlign, offsets, op, prevOp, arg,
                   result, nOps, buildVars, timerVars, ctlRegs, controlRegs, counterVars, cntVars>>

NextLayout == LayoutField \/ LayoutFinish

SpecLayout == InitLayout /\ [][NextLayout]_vars

\* ------------------------------------------------------------------------
\* The comparator Timer
\* ------------------------------------------------------------------------

\* TimerControl flags: 1 << 2, 1 << 1, 1 << 0.
ISTATUS == FromNat(2^2, U32Len)
IMASK == FromNat(2^1, U32Len)
ENABLE == FromNat(2^0, U32Len)

\* The TimerControl value with no flag set.
TimerControlEmpty == Zeros(U32Len)

\* bitflags' contains(): every bit of flags is set in c.
Contains(c, flags) == AndL(c, flags) = flags

\* core::time::Duration: whole seconds (u64) and nanoseconds below 10^9.
Duration(secs, nanos) == [secs |-> secs, nanos |-> nanos]

MicrosPerSec == 10^6
NanosPerMicro == 10^3

\* Duration::as_micros(): the duration in whole microseconds, as a u128.
AsMicros(d) ==
    Resize(AddFull(MulFull(d.secs, FromNat(MicrosPerSec, U32Len)),
                   FromNat(d.nanos \div NanosPerMicro, U32Len)), U128Len)

\* The divisor of set_deadline.
Million == 1000000

\* `self.frequency as u64 * duration.as_micros() as u64`, exact, as 16 limbs.
Product(f, d) == MulFull(Resize(f, U64Len), Resize(AsMicros(d), U64Len))

\* `... / 1_000_000` of the product as the u64 multiplication leaves it.
Increment(f, d) == DivSmall(Resize(Product(f, d), U64Len), Million)

\* Inputs: counter frequencies (1 MHz and the largest u32) ...
Frequencies == {FromNat(1000000, U32Len), Ones(U32Len)}

\* ... and durations: none, half a second, 2^33 microseconds, Duration::MAX.
Durations == {
    Duration(Zeros(U64Len), 0),
    Duration(Zeros(U64Len), 500000000),
    Duration(FromNat(8589, U64Len), 934592000),
    Duration(Ones(U64Len), 999999999) }

\* The arithmetic of set_deadline over the inputs, computed once.
DeadlineTable ==
    [f \in Frequencies |-> [d \in Durations |->
        [product |-> Product(f, d), increment |-> Increment(f, d)]]]
DeadlineProduct(f, d) == DeadlineTable[f][d].product
DeadlineIncrement(f, d) == DeadlineTable[f][d].increment

\* set_deadline(duration) on a timer of frequency f whose compare register
\* holds c.  The multiplication and the addition are u64 operations: with
\* overflow checks the build panics when one overflows, without it wraps.
\* The increment is computed before cval is read, and cval is written last.
SetDeadline(f, d, c, checks) ==
    LET mulOverflow == ~Fits(DeadlineProduct(f, d), U64Len)
        increment == DeadlineIncrement(f, d)
        sum == AddFull(c, increment)
        addOverflow == ~Fits(sum, U64Len)
    IN  IF checks /\ mulOverflow
        THEN [panic |-> TRUE, cval |-> c, trace |-> <<>>]
        ELSE IF checks /\ addOverflow
        THEN [panic |-> TRUE, cval |-> c, trace |-> << <<"read", "cval">> >>]
        ELSE [panic |-> FALSE, cval |-> Resize(sum, U64Len),
              trace |-> << <<"read", "cval">>, <<"write", "cval">> >>]

\* The hardware: the timer condition is met once the count has reached the
\* compare value while the timer is enabled.
TimerCondition(c, cv, cnt) == Contains(c, ENABLE) /\ LessEq(cv, cnt)

\* control(): the CTL register as a read returns it, ISTATUS being the
\* hardware's.
Control(c, cv, cnt) ==
    IF TimerCondition(c, cv, cnt) THEN OrL(c, ISTATUS) ELSE c

\* Variants of the control values: the interrupt left masked on arming, a
\* cancel that keeps the timer enabled, a cancel that only disables, and a
\* wait that masks without enabling.
GenerateInterruptControlMasked == OrL(ENABLE, IMASK)
CancelControlKeepsEnable == OrL(ENABLE, IMASK)
CancelControlUnmasked == TimerControlEmpty
WaitControlNotEnabled == IMASK

\* The control values the three operations write.
GenerateInterruptControl == ENABLE
CancelControl == IMASK
WaitControl == OrL(ENABLE, IMASK)

\* A wait that never polls again.
WaitNeverPending(c) == FALSE

\* The loop condition of wait: poll again.
WaitPending(c) == ~Contains(c, ISTATUS)

\* Bounds of the model.
MaxOps == 2
MaxSpins == 2

\* Inputs: compare values left by earlier use, and values of the counter.
InitCvals == {Zeros(U64Len), FromNat(1000000, U64Len), Ones(U64Len)}
CountValues == {Zeros(U64Len), FromNat(500000, U64Len), FromNat(5000000, U64Len),
                Ones(U64Len)}
InitCounts == {Zeros(U64Len), FromNat(5000000, U64Len)}

InitTimer ==
    /\ overflowChecks \in BOOLEAN
    /\ u64Align = 8
    /\ CallIdle /\ LayoutUnused /\ CtlUnused /\ ControlUnused
    /\ CounterUnused /\ CntUnused
    /\ frequency \in Frequencies
    /\ cval \in InitCvals
    /\ tval = Zeros(U32Len)
    /\ ctl = TimerControlEmpty
    /\ count \in InitCounts
    /\ cval0 = cval /\ ctl0 = ctl /\ count0 = count
    /\ trace = <<>>
    /\ spins = 0

\* What every call of a Timer operation records.
TimerCall(name, a) ==
    /\ pc = "idle"
    /\ nOps < MaxOps
    /\ nOps' = nOps + 1
    /\ prevOp' = op
    /\ op' = name
    /\ arg' = a
    /\ result' = NoResult
    /\ cval0' = cval
    /\ ctl0' = Control(ctl, cval, count)
    /\ count0' = count
    /\ spins' = 0

\* The first statement of generate_interrupt_after and of wait:
\* self.set_deadline(duration).
CallSetDeadline(d, next) ==
    LET r == SetDeadline(frequency, d, cval, overflowChecks)
    IN  /\ cval' = r.cval
        /\ trace' = r.trace
        /\ pc' = IF r.panic THEN "panicked" ELSE next

GenerateInterruptAfter ==
    \E d \in Durations :
        /\ TimerCall("generate_interrupt_after", [kind |-> "duration", d |-> d])
        /\ CallSetDeadline(d, "gia_ctl")
        /\ UNCHANGED <<tval, ctl, frequency, count>>
        /\ UNCHANGED <<buildVars, layoutVars, ctlRegs, controlRegs, counterVars, cntVars>>

\* self.set_control(TimerControl::ENABLE), and the return.
GenerateInterruptSetControl ==
    /\ pc = "gia_ctl"
    /\ ctl' = GenerateInterruptControl
    /\ trace' = Append(trace, <<"write", "ctl", GenerateInterruptControl>>)
    /\ pc' = "idle"
    /\ result' = Unit
    /\ UNCHANGED <<op, prevOp, arg, nOps, cval, tval, frequency, count,
                   cval0, ctl0, count0, spins>>
    /\ UNCHANGED <<buildVars, layoutVars, ctlRegs, controlRegs, counterVars, cntVars>>

CancelInterrupt ==
    /\ TimerCall("cancel_interrupt", NoArg)
    /\ ctl' = CancelControl
    /\ trace' = << <<"write", "ctl", CancelControl>> >>
    /\ pc' = "idle"
    /\ UNCHANGED <<cval, tval, frequency, count>>
    /\ UNCHANGED <<buildVars, layoutVars, ctlRegs, controlRegs, counterVars, cntVars>>

Wait ==
    \E d \in Durations :
        /\ TimerCall("wait", [kind |-> "duration", d |-> d])
        /\ CallSetDeadline(d, "wait_ctl")
        /\ UNCHANGED <<tval, ctl, frequency, count>>
        /\ UNCHANGED <<buildVars, layoutVars, ctlRegs, controlRegs, counterVars, cntVars>>

\* self.set_control(TimerControl::ENABLE | TimerControl::IMASK).
WaitSetControl ==
    /\ pc = "wait_ctl"
    /\ ctl' = WaitControl
    /\ trace' = Append(trace, <<"write", "ctl", WaitControl>>)
    /\ pc' = "wait_poll"
    /\ UNCHANGED <<op, prevOp, arg, result, nOps, cval, tval, frequency, count,
                   cval0, ctl0, count0, spins>>
    /\ UNCHANGED <<buildVars, layoutVars, ctlRegs, controlRegs, counterVars, cntVars>>

\* One evaluation of the loop condition: read CTL, return once ISTATUS is set.
\* Repeated reads are logged once.
WaitPoll ==
    /\ pc = "wait_poll"
    /\ trace' = IF trace[Len(trace)] = <<"read", "ctl">> THEN trace
                ELSE Append(trace, <<"read", "ctl">>)
    /\ \E c \in {Control(ctl, cval, count)} :
        IF WaitPending(c)
        THEN /\ spins' = Min(spins + 1, MaxSpins)
             /\ UNCHANGED <<pc, result>>
        ELSE /\ pc' = "idle"
             /\ result' = Unit
             /\ UNCHANGED spins
    /\ UNCHANGED <<op, prevOp, arg, nOps, cval, tval, ctl, frequency, count,
                   cval0, ctl0, count0>>
    /\ UNCHANGED <<buildVars, layoutVars, ctlRegs, controlRegs, counterVars, cntVars>>

\* The hardware counter advances (the model lets it jump to the next values
\* of interest, up to the largest u64).
HwTick ==
    /\ pc # "panicked"
    /\ \E v \in CountValues : ~LessEq(v, count) /\ count' = v
    /\ UNCHANGED <<cval, tval, ctl, frequency, cval0, ctl0, count0, trace, spins>>
    /\ UNCHANGED <<buildVars, callVars, layoutVars, ctlRegs, controlRegs, counterVars, cntVars>>

NextTimer ==
    \/ GenerateInterruptAfter
    \/ GenerateInterruptSetControl
    \/ CancelInterrupt
    \/ Wait
    \/ WaitSetControl
    \/ WaitPoll
    \/ HwTick

SpecTimer == InitTimer /\ [][NextTimer]_vars

\* The processor keeps executing the polling loop and the counter keeps
\* counting.  (The subscripts are the variables the two actions can change.)
pollVars == <<pc, result, trace, spins>>
FairSpecTimer == SpecTimer /\ WF_pollVars(WaitPoll) /\ WF_count(HwTick)

\* ------------------------------------------------------------------------
\* GenericTimerCtl: the driver of the CNTCTLBase frame
\* ------------------------------------------------------------------------

\* Features flags (u8): 1 << 2, 1 << 1, 1 << 0.
CNTEL0BASE == 2^2
VIRTUAL == 2^1
IMPLEMENTED == 2^0

\* Features::all().bits()
FeaturesAll == OrNat(OrNat(CNTEL0BASE, VIRTUAL), IMPLEMENTED)

\* Features::from_bits_truncate(bits): the defined flags of bits.
FromBitsTruncate(bits) == AndNat(bits, FeaturesAll)

\* The frames of a CNTCTLBase: the lengths of cntacr and cntvoff, and the
\* bound the asserts state.
FrameCount == 8

\* The width in bits of a register of n limbs.
Bits(n) == 8 * n

\* A panic, or the value an operation returns.
Panic == [panic |-> TRUE]
Ok(v) == [panic |-> FALSE, v |-> v]

\* `x >> s` and `x << s`: a shift by the width or more panics when overflow
\* is checked, and otherwise shifts by s modulo the width.
ShrChecked(x, s, checks) ==
    IF s >= Bits(Len(x))
    THEN IF checks THEN Panic ELSE Ok(ShrL(x, s % Bits(Len(x))))
    ELSE Ok(ShrL(x, s))
ShlChecked(x, s, checks) ==
    IF s >= Bits(Len(x))
    THEN IF checks THEN Panic ELSE Ok(ShlL(x, s % Bits(Len(x))))
    ELSE Ok(ShlL(x, s))

One32 == FromNat(1, U32Len)

\* The shift amount of features: `index * 8`.
FeaturesShift(index) == index * 8

\* features(index)
Features(tidr, index, checks) ==
    IF ~(index < FrameCount) THEN Panic
    ELSE LET shifted == ShrChecked(tidr, FeaturesShift(index), checks)
         IN  IF shifted.panic THEN Panic
             ELSE Ok(FromBitsTruncate(Limb(shifted.v, 1)))

\* non_secure_access(index)
NonSecureAccessOf(nsar, index, checks) ==
    IF ~(index < FrameCount) THEN Panic
    ELSE LET mask == ShlChecked(One32, index, checks)
         IN  IF mask.panic THEN Panic
             ELSE Ok(~IsZero(AndL(nsar, mask.v)))

\* set_non_secure_access(index, enable): the value written to CNTNSAR.
SetNonSecureAccessOf(nsar, index, enable, checks) ==
    IF ~(index < FrameCount) THEN Panic
    ELSE LET mask == ShlChecked(One32, index, checks)
         IN  IF mask.panic THEN Panic
             ELSE Ok(IF enable THEN OrL(nsar, mask.v) ELSE AndL(nsar, NotL(mask.v)))

\* `.get(index)` of a register array: None out of range.
Get(array, index) ==
    IF index < Len(array) THEN [some |-> TRUE, v |-> array[index + 1]]
    ELSE [some |-> FALSE]

\* Inputs of the CNTCTLBase operations.
CtlIndices == {0, 2, 4, 7, 8}
TidrValues == {<<1, 3, 5, 7>>, <<249, 0, 170, 6>>, Ones(U32Len)}
CtlFrequencies == {Zeros(U32Len), FromNat(1000000, U32Len)}
AcrValues == {FromNat(1, U32Len), FromNat(63, U32Len)}
VoffValues == {FromNat(1, U64Len), Ones(U64Len)}


\* The CNTCTLBase frame when the driver is created: the identification
\* register is the implementation's, the others are still clear.
CtlRegsInit ==
    /\ cntfrq = Zeros(U32Len)
    /\ cntnsar = Zeros(U32Len)
    /\ cnttidr \in TidrValues
    /\ cntacr = AsSeq([i \in 1..FrameCount |-> Zeros(U32Len)])
    /\ cntvoff = AsSeq([i \in 1..FrameCount |-> Zeros(U64Len)])

InitCtl ==
    /\ overflowChecks \in BOOLEAN
    /\ u64Align = 8
    /\ CallIdle /\ LayoutUnused /\ TimerUnused /\ ControlUnused
    /\ CounterUnused /\ CntUnused
    /\ CtlRegsInit

IndexArg(index) == [kind |-> "index", index |-> index]
IndexValueArg(index, v) == [kind |-> "index_value", index |-> index, v |-> v]
ValueArg(v) == [kind |-> "value", v |-> v]
Value(v) == [kind |-> "value", v |-> v]

\* What every call of a GenericTimerCtl or GenericTimerControl operation
\* records.
DriverCall(name, a) ==
    /\ pc = "idle"
    /\ nOps < MaxOps
    /\ nOps' = nOps + 1
    /\ prevOp' = op
    /\ op' = name
    /\ arg' = a

\* The call returns r.v, or panics: r is Panic or Ok(v).
Return(r) ==
    IF r.panic
    THEN pc' = "panicked" /\ result' = NoResult
    ELSE pc' = "idle" /\ result' = Value(r.v)

ReturnUnit == pc' = "idle" /\ result' = Unit

CtlFrame == UNCHANGED <<buildVars, layoutVars, timerVars, controlRegs, counterVars, cntVars>>

Frequency ==
    /\ DriverCall("frequency", NoArg)
    /\ Return(Ok(cntfrq))
    /\ UNCHANGED ctlRegs /\ CtlFrame

SetFrequency ==
    \E f \in CtlFrequencies :
        /\ DriverCall("set_frequency", ValueArg(f))
        /\ cntfrq' = f
        /\ ReturnUnit
        /\ UNCHANGED <<cntnsar, cnttidr, cntacr, cntvoff>> /\ CtlFrame

NonSecureAccess ==
    \E index \in CtlIndices :
        /\ DriverCall("non_secure_access", IndexArg(index))
        /\ Return(NonSecureAccessOf(cntnsar, index, overflowChecks))
        /\ UNCHANGED ctlRegs /\ CtlFrame

SetNonSecureAccess ==
    \E index \in CtlIndices, enable \in BOOLEAN :
        /\ DriverCall("set_non_secure_access", IndexValueArg(index, enable))
        /\ LET r == SetNonSecureAccessOf(cntnsar, index, enable, overflowChecks)
           IN  IF r.panic
               THEN Return(Panic) /\ UNCHANGED cntnsar
               ELSE ReturnUnit /\ cntnsar' = r.v
        /\ UNCHANGED <<cntfrq, cnttidr, cntacr, cntvoff>> /\ CtlFrame

FeaturesCall ==
    \E index \in CtlIndices :
        /\ DriverCall("features", IndexArg(index))
        /\ Return(Features(cnttidr, index, overflowChecks))
        /\ UNCHANGED ctlRegs /\ CtlFrame

\* .get(index).unwrap().read()
AccessControl ==
    \E index \in CtlIndices :
        /\ DriverCall("access_control", IndexArg(index))
        /\ LET e == Get(cntacr, index)
           IN  Return(IF e.some THEN Ok(e.v) ELSE Panic)
        /\ UNCHANGED ctlRegs /\ CtlFrame

\* .get(index).unwrap().write(cntacr)
SetAccessControl ==
    \E index \in CtlIndices, v \in AcrValues :
        /\ DriverCall("set_access_control", IndexValueArg(index, v))
        /\ IF Get(cntacr, index).some
           THEN ReturnUnit /\ cntacr' = [cntacr EXCEPT ![index + 1] = v]
           ELSE Return(Panic) /\ UNCHANGED cntacr
        /\ UNCHANGED <<cntfrq, cntnsar, cnttidr, cntvoff>> /\ CtlFrame

VirtualOffset ==
    \E index \in CtlIndices :
        /\ DriverCall("virtual_offset", IndexArg(index))
        /\ LET e == Get(cntvoff, index)
           IN  Return(IF e.some THEN Ok(e.v) ELSE Panic)
        /\ UNCHANGED ctlRegs /\ CtlFrame

SetVirtualOffset ==
    \E index \in CtlIndices, v \in VoffValues :
        /\ DriverCall("set_virtual_offset", IndexValueArg(index, v))
        /\ IF Get(cntvoff, index).some
           THEN ReturnUnit /\ cntvoff' = [cntvoff EXCEPT ![index + 1] = v]
           ELSE Return(Panic) /\ UNCHANGED cntvoff
        /\ UNCHANGED <<cntfrq, cntnsar, cnttidr, cntacr>> /\ CtlFrame

NextCtl ==
    \/ Frequency
    \/ SetFrequency
    \/ NonSecureAccess
    \/ SetNonSecureAccess
    \/ FeaturesCall
    \/ AccessControl
    \/ SetAccessControl
    \/ VirtualOffset
    \/ SetVirtualOffset

SpecCtl == InitCtl /\ [][NextCtl]_vars

\* ------------------------------------------------------------------------
\* GenericTimerControl: the frequency modes table of the CNTControlBase frame
\* ------------------------------------------------------------------------

\* The length of cntfid.
FidCount == 40

\* Option<u32>
None == [some |-> FALSE]
Some(v) == [some |-> TRUE, v |-> v]

\* frequency_mode decided by the entry being at least 1 MHz ...
FrequencyOptionAtLeastMHz(f) ==
    IF LessEq(FromNat(1000000, U32Len), f) THEN Some(f) ELSE None

\* ... and decided as the code does: `if frequency != 0 { Some(frequency) }
\* else { None }`.
FrequencyOption(f) == IF ~IsZero(f) THEN Some(f) ELSE None

\* Inputs: table indices (40 is out of range), table entries and tables.
FidIndices == {0, 1, 39, 40}
FidValues == {Zeros(U32Len), FromNat(1, U32Len), FromNat(1000000, U32Len), Ones(U32Len)}
FidTables == {
    AsSeq([i \in 1..FidCount |-> Zeros(U32Len)]),
    AsSeq([i \in 1..FidCount |-> IF i = 1 THEN FromNat(1000000, U32Len)
                                 ELSE IF i = 2 THEN FromNat(500000, U32Len)
                                 ELSE Zeros(U32Len)]) }

InitControl ==
    /\ overflowChecks \in BOOLEAN
    /\ u64Align = 8
    /\ CallIdle /\ LayoutUnused /\ TimerUnused /\ CtlUnused
    /\ CounterUnused /\ CntUnused
    /\ cntfid \in FidTables

ControlFrame ==
    UNCHANGED <<buildVars, layoutVars, timerVars, ctlRegs, counterVars, cntVars>>

\* .get(0).unwrap().read()
BaseFrequency ==
    /\ DriverCall("base_frequency", NoArg)
    /\ LET e == Get(cntfid, 0)
       IN  Return(IF e.some THEN Ok(e.v) ELSE Panic)
    /\ UNCHANGED cntfid /\ ControlFrame

FrequencyMode ==
    \E index \in FidIndices :
        /\ DriverCall("frequency_mode", IndexArg(index))
        /\ LET e == Get(cntfid, index)
           IN  Return(IF e.some THEN Ok(FrequencyOption(e.v)) ELSE Panic)
        /\ UNCHANGED cntfid /\ ControlFrame

\* .get(index).unwrap().write(frequency)
SetFrequencyMode ==
    \E index \in FidIndices, f \in FidValues :
        /\ DriverCall("set_frequency_mode", IndexValueArg(index, f))
        /\ IF Get(cntfid, index).some
           THEN ReturnUnit /\ cntfid' = [cntfid EXCEPT ![index + 1] = f]
           ELSE Return(Panic) /\ UNCHANGED cntfid
        /\ ControlFrame

NextControl ==
    \/ BaseFrequency
    \/ FrequencyMode
    \/ SetFrequencyMode

SpecControl == InitControl /\ [][NextControl]_vars

\* ------------------------------------------------------------------------
\* GenericTimerControl: the counter's control, scale and identification
\* registers
\* ------------------------------------------------------------------------

\* CntCr flags: 1 << 2, 1 << 1, 1 << 0.
SCEN == FromNat(2^2, U32Len)
HDBG == FromNat(2^1, U32Len)
EN == FromNat(2^0, U32Len)

\* bitflags' union (`|`, insert) and difference (`-`, remove): both keep the
\* bits of the left operand that no flag names.
Union(a, b) == OrL(a, b)
\* A difference that clears the whole register.
DifferenceClearsAll(a, b) == Zeros(Len(a))
Difference(a, b) == AndL(a, NotL(b))

\* set() replacing the register by the flag alone.
SetFlagAlone(flags, other, value) == IF value THEN other ELSE Zeros(Len(flags))

\* bitflags' set(other, value): insert when value, remove otherwise.
SetFlag(flags, other, value) ==
    IF value THEN Union(flags, other) ELSE Difference(flags, other)

\* CntCr::FCREQ_MASK (0x0000_03ff) and CntCr::FCREQ_SHIFT.
FCREQ_MASK == FromNat(1023, U32Len)
FCREQ_SHIFT == 8

\* `index as u32` of a usize (64 bits wide here).
UsizeLen == U64Len
AsU32(index) == Resize(index, U32Len)

\* set_fcreq without the mask on the index.
SetFcreqUnmasked(v, index) ==
    OrL(AndL(v, NotL(ShlL(FCREQ_MASK, FCREQ_SHIFT))), ShlL(AsU32(index), FCREQ_SHIFT))

\* CntCr::set_fcreq(index): the new value of the register.
SetFcreq(v, index) ==
    LET value == AndL(v, NotL(ShlL(FCREQ_MASK, FCREQ_SHIFT)))
    IN  OrL(value, ShlL(AndL(AsU32(index), FCREQ_MASK), FCREQ_SHIFT))

\* CntId::CNTSC_MASK and CntId::CNTSC_IMPLEMENTED.
CNTSC_MASK == FromNat(15, U32Len)
CNTSC_IMPLEMENTED == FromNat(1, U32Len)

\* scaling_implemented testing the bit alone.
ScalingImplementedBitOnly(id) == ~IsZero(AndL(id, CNTSC_IMPLEMENTED))

\* CntId::scaling_implemented(): `self.0 & CNTSC_MASK == CNTSC_IMPLEMENTED`,
\* where & binds tighter than ==.
ScalingImplementedOf(id) == AndL(id, CNTSC_MASK) = CNTSC_IMPLEMENTED

\* Inputs of the counter operations.
CntCrValues == {Zeros(U32Len), <<251, 255, 255, 255>>, <<6, 171, 2, 128>>, Ones(U32Len)}
FcreqIndices == {Zeros(UsizeLen), FromNat(1023, UsizeLen), FromNat(1500, UsizeLen),
                 <<1, 2, 3, 4, 5, 0, 0, 0>>}
ScaleValues == {FromNat(1, U32Len), Ones(U32Len)}
CountArgs == {FromNat(5000000, U64Len), Ones(U64Len)}


\* The frame when the driver is created.
InitCounter ==
    /\ overflowChecks = FALSE
    /\ u64Align = 8
    /\ CallIdle /\ LayoutUnused /\ TimerUnused /\ CtlUnused /\ CntUnused
    /\ cntfid \in {f \in FidTables : f[1] # Zeros(U32Len)}
    /\ cntcr \in CntCrValues
    /\ cntscr = Zeros(U32Len)
    /\ cntcv = Zeros(U64Len)
    /\ cntid \in {FromNat(1, U32Len), FromNat(0, U32Len)}
    /\ cntcr0 = cntcr
    /\ scaleArg = None

\* What every call of a counter operation records.
CounterCall(name, a) ==
    /\ DriverCall(name, a)
    /\ cntcr0' = cntcr

CounterFrame ==
    UNCHANGED <<buildVars, layoutVars, timerVars, ctlRegs, controlRegs, cntVars>>

\* read cntcr, cntcr.set(CntCr::EN, enable), write cntcr
SetEnable ==
    \E enable \in BOOLEAN :
        /\ CounterCall("set_enable", ValueArg(enable))
        /\ cntcr' = SetFlag(cntcr, EN, enable)
        /\ ReturnUnit
        /\ UNCHANGED <<cntscr, cntcv, cntid, scaleArg>> /\ CounterFrame

\* read cntcr, cntcr.set_fcreq(index), write cntcr
RequestFrequency ==
    \E index \in FcreqIndices :
        /\ CounterCall("request_frequency", ValueArg(index))
        /\ cntcr' = SetFcreq(cntcr, index)
        /\ ReturnUnit
        /\ UNCHANGED <<cntscr, cntcv, cntid, scaleArg>> /\ CounterFrame

Count ==
    /\ CounterCall("count", NoArg)
    /\ Return(Ok(cntcv))
    /\ UNCHANGED <<counterRegs, scaleArg>> /\ CounterFrame

SetCount ==
    \E c \in CountArgs :
        /\ CounterCall("set_count", ValueArg(c))
        /\ cntcv' = c
        /\ ReturnUnit
        /\ UNCHANGED <<cntcr, cntscr, cntid, scaleArg>> /\ CounterFrame

ScalingImplemented ==
    /\ CounterCall("scaling_implemented", NoArg)
    /\ Return(Ok(ScalingImplementedOf(cntid)))
    /\ UNCHANGED <<counterRegs, scaleArg>> /\ CounterFrame

Scale ==
    /\ CounterCall("scale", NoArg)
    /\ Return(Ok(cntscr))
    /\ UNCHANGED <<counterRegs, scaleArg>> /\ CounterFrame

\* enable_scaling(scale), its first write: cntscr.
EnableScaling ==
    \E s \in ScaleValues :
        /\ CounterCall("enable_scaling", ValueArg(s))
        /\ cntscr' = s
        /\ scaleArg' = Some(s)
        /\ pc' = "es_scen"
        /\ result' = NoResult
        /\ UNCHANGED <<cntcr, cntcv, cntid>> /\ CounterFrame

\* ... then read cntcr and write cntcr | CntCr::SCEN.
EnableScalingSetScen ==
    /\ pc = "es_scen"
    /\ cntcr' = Union(cntcr, SCEN)
    /\ ReturnUnit
    /\ UNCHANGED <<op, prevOp, arg, nOps, cntscr, cntcv, cntid, cntcr0, scaleArg>>
    /\ CounterFrame

\* disable_scaling() zeroing the scale register before it clears SCEN.
DisableScalingZeroFirst ==
    /\ CounterCall("disable_scaling", NoArg)
    /\ cntscr' = Zeros(U32Len)
    /\ pc' = "ds_zero"
    /\ result' = NoResult
    /\ UNCHANGED <<cntcr, cntcv, cntid, scaleArg>> /\ CounterFrame

\* disable_scaling(): read cntcr and write cntcr - CntCr::SCEN ...
DisableScaling ==
    /\ CounterCall("disable_scaling", NoArg)
    /\ cntcr' = Difference(cntcr, SCEN)
    /\ pc' = "ds_zero"
    /\ result' = NoResult
    /\ UNCHANGED <<cntscr, cntcv, cntid, scaleArg>> /\ CounterFrame

\* ... then write 0 to cntscr.
DisableScalingZero ==
    /\ pc = "ds_zero"
    /\ cntscr' = Zeros(U32Len)
    /\ ReturnUnit
    /\ UNCHANGED <<op, prevOp, arg, nOps, cntcr, cntcv, cntid, cntcr0, scaleArg>>
    /\ CounterFrame

NextCounter ==
    \/ SetEnable
    \/ RequestFrequency
    \/ Count
    \/ SetCount
    \/ ScalingImplemented
    \/ Scale
    \/ EnableScaling
    \/ EnableScalingSetScen
    \/ DisableScaling
    \/ DisableScalingZero
    \/ SetFrequencyMode

SpecCounter == InitCounter /\ [][NextCounter]_vars

\* The driver created over a frame whose scaling is not enabled.
InitScaling == InitCounter /\ ~Contains(cntcr, SCEN)

SpecScaling == InitScaling /\ [][NextCounter]_vars

\* Identification register values: every low nibble under three patterns of
\* the bits above it.
CntIdValues ==
    {<<n + 16 * h[1], h[2], h[2], h[2]>> :
        n \in 0..15, h \in {<<0, 0>>, <<15, 255>>, <<10, 85>>}}

InitId ==
    /\ overflowChecks = FALSE
    /\ u64Align = 8
    /\ CallIdle /\ LayoutUnused /\ TimerUnused /\ CtlUnused /\ CntUnused
    /\ cntfid \in {f \in FidTables : f[1] # Zeros(U32Len)}
    /\ cntcr = Zeros(U32Len)
    /\ cntscr = Zeros(U32Len)
    /\ cntcv = Zeros(U64Len)
    /\ cntid \in CntIdValues
    /\ cntcr0 = cntcr
    /\ scaleArg = None

NextId == ScalingImplemented

SpecId == InitId /\ [][NextId]_vars

\* ------------------------------------------------------------------------
\* Both drivers of the memory-mapped control frames, side by side
\* ------------------------------------------------------------------------

InitDrivers ==
    /\ overflowChecks \in BOOLEAN
    /\ u64Align = 8
    /\ CallIdle /\ LayoutUnused /\ TimerUnused
    /\ CounterUnused /\ CntUnused
    /\ CtlRegsInit
    /\ cntfid \in FidTables

NextDrivers == NextCtl \/ NextControl

SpecDrivers == InitDrivers /\ [][NextDrivers]_vars

\* ------------------------------------------------------------------------
\* GenericTimerCnt and GenericTimerCntEl0: the timer frames and the Timers
\* borrowed from them
\* ------------------------------------------------------------------------

RECURSIVE OffsetsOf(_, _, _)
\* The offsets at which the fields are placed, in declaration order.
OffsetsOf(fields, st, a64) ==
    IF fields = <<>> THEN <<>>
    ELSE LET placed == PlaceField(Head(fields), st, a64)
         IN  <<placed.at>> \o OffsetsOf(Tail(fields), placed, a64)

\* The offsets of the fields and the size of every layout, computed once.
LayoutTable ==
    [l \in Layouts |-> [a64 \in U64Aligns |->
        [offsets |-> OffsetsOf(Fields(l), LayoutStart, a64),
         index |-> [n \in {Fields(l)[i].name : i \in 1..Len(Fields(l))} |->
                       FieldIndex(l, n)],
         size |-> TypeSize(l, a64)]]]

\* The byte offset of the field called name in layout l.
FieldOffset(l, name, a64) ==
    LayoutTable[l][a64].offsets[LayoutTable[l][a64].index[name]]

\* size_of of layout l.
SizeOf(l, a64) == LayoutTable[l][a64].size

\* The byte offset in frame f of register reg of the TimerRegs field which.
TimerRegOffset(f, which, reg, a64) ==
    FieldOffset(f, which, a64) + FieldOffset("TimerRegs", reg, a64)

\* The bytes TimerRegs field which of frame f occupies.
TimerBlock(f, which, a64) ==
    LET at == FieldOffset(f, which, a64)
    IN  at .. (at + SizeOf("TimerRegs", a64) - 1)

\* The registers of a frame are words of 4 bytes, addressed by byte offset;
\* those from cntfrq to the end of cntv are kept (the counters before them
\* are the hardware's).
WordSize == 4
MemWords(f, a64) ==
    {a \in FieldOffset(f, "cntfrq", a64) ..
            (FieldOffset(f, "cntv", a64) + SizeOf("TimerRegs", a64) - 1) :
        a % WordSize = 0}

ReadU32(m, a) == m[a]
ReadU64(m, a) == m[a] \o m[a + WordSize]
WriteU32(m, a, v) == [m EXCEPT ![a] = v]
WriteU64(m, a, v) ==
    [m EXCEPT ![a] = SubSeq(v, 1, U32Len), ![a + WordSize] = SubSeq(v, U32Len + 1, U64Len)]

\* A Timer that does not keep its driver borrowed.
TimerBorrowsNothing == FALSE

\* physical_timer(&mut self) -> Timer<'_>: the Timer keeps the exclusive
\* borrow of the driver for as long as it lives.
TimerBorrowsDriver == TRUE

\* The borrow checker lets the driver be used: nothing keeps it borrowed.
DriverFree == ~TimerBorrowsDriver \/ live = "none"

\* A virtual timer over the physical timer's registers.
VirtualTimerOverCntp == "cntp"

\* The fields physical_timer and virtual_timer hand to Timer::new.
PhysicalTimerField == "cntp"
VirtualTimerField == "cntv"

TimerFrames == {"CntBase", "CntEl0Base"}


\* Inputs: values of the EL0 access control register.
El0AcrValues == {FromNat(1, U32Len), FromNat(771, U32Len)}

\* The frame when its driver is created: the frequency register set up, the
\* other registers clear.
InitCnt ==
    /\ overflowChecks \in BOOLEAN
    /\ u64Align = 8
    /\ CallIdle /\ LayoutUnused /\ CtlUnused /\ ControlUnused /\ CounterUnused
    /\ cval = Zeros(U64Len) /\ tval = Zeros(U32Len) /\ ctl = Zeros(U32Len)
    /\ cval0 = Zeros(U64Len) /\ ctl0 = Zeros(U32Len) /\ count0 = Zeros(U64Len)
    /\ trace = <<>> /\ spins = 0
    /\ frequency = Zeros(U32Len)
    /\ count \in InitCounts
    /\ frame \in TimerFrames
    /\ \E f \in Frequencies :
        mem = [a \in MemWords(frame, u64Align) |->
                  IF a = FieldOffset(frame, "cntfrq", u64Align) THEN f
                  ELSE Zeros(U32Len)]
    /\ live = "none"

CntRest ==
    UNCHANGED <<buildVars, layoutVars, ctlRegs, controlRegs, counterVars, timerRegs,
                cval0, ctl0, count0, trace, frame>>

\* A call of an operation of the frame's driver: the driver must not be
\* borrowed.
CntCall(name, a) ==
    /\ DriverCall(name, a)
    /\ DriverFree

\* What an operation that only reads leaves alone.
CntReadOnly == UNCHANGED <<mem, live, frequency, count, spins>> /\ CntRest

\* The counters cntpct and cntvct (the virtual offset being zero).
PhysicalCount ==
    /\ CntCall("physical_count", NoArg)
    /\ Return(Ok(count))
    /\ CntReadOnly

VirtualCount ==
    /\ CntCall("virtual_count", NoArg)
    /\ Return(Ok(count))
    /\ CntReadOnly

CntFrequency ==
    /\ CntCall("frequency", NoArg)
    /\ Return(Ok(ReadU32(mem, FieldOffset(frame, "cntfrq", u64Align))))
    /\ CntReadOnly

El0Access ==
    /\ frame = "CntBase"
    /\ CntCall("el0_access", NoArg)
    /\ Return(Ok(ReadU32(mem, FieldOffset(frame, "cntel0acr", u64Align))))
    /\ CntReadOnly

SetEl0Access ==
    \E v \in El0AcrValues :
        /\ frame = "CntBase"
        /\ CntCall("set_el0_access", ValueArg(v))
        /\ mem' = WriteU32(mem, FieldOffset(frame, "cntel0acr", u64Align), v)
        /\ ReturnUnit
        /\ UNCHANGED <<live, frequency, count, spins>> /\ CntRest

CntVirtualOffset ==
    /\ frame = "CntBase"
    /\ CntCall("virtual_offset", NoArg)
    /\ Return(Ok(ReadU64(mem, FieldOffset(frame, "cntvoff", u64Align))))
    /\ CntReadOnly

\* let frequency = self.frequency(); Timer::new(field!(self.regs, field),
\* frequency)
TimerNew(field) ==
    /\ frequency' = ReadU32(mem, FieldOffset(frame, "cntfrq", u64Align))
    /\ live' = field
    /\ pc' = "idle"
    /\ result' = [kind |-> "timer", field |-> field]

PhysicalTimer ==
    /\ CntCall("physical_timer", NoArg)
    /\ TimerNew(PhysicalTimerField)
    /\ UNCHANGED <<mem, count, spins>> /\ CntRest

VirtualTimer ==
    /\ CntCall("virtual_timer", NoArg)
    /\ TimerNew(VirtualTimerField)
    /\ UNCHANGED <<mem, count, spins>> /\ CntRest

\* The Timer goes out of scope, and its borrow of the driver with it.
TimerRelease ==
    /\ pc = "idle"
    /\ live # "none"
    /\ live' = "none"
    /\ UNCHANGED <<callVars, mem, frequency, count, spins>> /\ CntRest

\* The registers of the live Timer.
LiveCval == TimerRegOffset(frame, live, "cval", u64Align)
LiveCtl == TimerRegOffset(frame, live, "ctl", u64Align)

\* A call of an operation of the live Timer.
LiveCall(name, a) ==
    /\ live # "none"
    /\ DriverCall(name, a)
    /\ spins' = 0

\* set_deadline(duration), then set_control(control), on the live Timer:
\* the frame afterwards, or a panic.
LiveArm(d, control) ==
    LET r == SetDeadline(frequency, d, ReadU64(mem, LiveCval), overflowChecks)
    IN  IF r.panic THEN Panic
        ELSE Ok(WriteU32(WriteU64(mem, LiveCval, r.cval), LiveCtl, control))

\* generate_interrupt_after(duration) on the live Timer.
LiveGenerateInterruptAfter ==
    \E d \in Durations :
        /\ LiveCall("generate_interrupt_after", [kind |-> "duration", d |-> d])
        /\ LET r == LiveArm(d, GenerateInterruptControl)
           IN  IF r.panic
               THEN Return(Panic) /\ UNCHANGED mem
               ELSE ReturnUnit /\ mem' = r.v
        /\ UNCHANGED <<live, frequency, count>> /\ CntRest

\* cancel_interrupt() on the live Timer.
LiveCancelInterrupt ==
    /\ LiveCall("cancel_interrupt", NoArg)
    /\ mem' = WriteU32(mem, LiveCtl, CancelControl)
    /\ ReturnUnit
    /\ UNCHANGED <<live, frequency, count>> /\ CntRest

\* wait(duration) on the live Timer, up to its loop ...
LiveWait ==
    \E d \in Durations :
        /\ LiveCall("wait", [kind |-> "duration", d |-> d])
        /\ LET r == LiveArm(d, WaitControl)
           IN  IF r.panic
               THEN Return(Panic) /\ UNCHANGED mem
               ELSE pc' = "wait_poll" /\ result' = NoResult /\ mem' = r.v
        /\ UNCHANGED <<live, frequency, count>> /\ CntRest

\* ... and one evaluation of the loop condition.
LiveWaitPoll ==
    /\ pc = "wait_poll"
    /\ live # "none"
    /\ \E c \in {Control(ReadU32(mem, LiveCtl), ReadU64(mem, LiveCval), count)} :
        IF WaitPending(c)
        THEN /\ spins' = Min(spins + 1, MaxSpins)
             /\ UNCHANGED <<pc, result>>
        ELSE /\ ReturnUnit
             /\ UNCHANGED spins
    /\ UNCHANGED <<op, prevOp, arg, nOps, mem, live, frequency, count>> /\ CntRest

NextCnt ==
    \/ PhysicalCount
    \/ VirtualCount
    \/ CntFrequency
    \/ El0Access
    \/ SetEl0Access
    \/ CntVirtualOffset
    \/ PhysicalTimer
    \/ VirtualTimer
    \/ TimerRelease
    \/ LiveGenerateInterruptAfter
    \/ LiveCancelInterrupt
    \/ LiveWait
    \/ LiveWaitPoll
    \/ HwTick

SpecCnt == InitCnt /\ [][NextCnt]_vars

\* ------------------------------------------------------------------------
\* The claims
\* ------------------------------------------------------------------------

\* The size the `sizes` test expects of every frame: 0x1000.
FrameSize == 4096

\* C1: every frame layout (CntControlBase, CntReadBase, CntCtlBase, CntBase,
\* CntEl0Base) is exactly 4096 bytes long: once all its fields are placed in
\* declaration order, padding included, its size is 0x1000.
C1_FrameSizes ==
    (pc = "done" /\ layout \in Frames) => size = FrameSize

\* A frame with two embedded TimerRegs blocks has been laid out to the end.
C1_Witness ==
    /\ pc = "done" /\ layout = "CntBase"
    /\ fieldIdx = Len(CntBase) /\ size = FrameSize

\* The increment set_deadline is meant to add: frequency * microseconds /
\* 1_000_000 rounded down, exact and of any size.
ExactIncrement(f, d) == DivSmall(MulFull(AsMicros(d), f), Million)
ExactTable == [f \in Frequencies |-> [d \in Durations |-> ExactIncrement(f, d)]]

\* The compare value the last set_deadline was meant to leave.
ExactDeadline == AddFull(cval0, ExactTable[frequency][arg.d])

DeadlineOps == {"generate_interrupt_after", "wait"}

\* C2 (as claimed): set_deadline(d) leaves the compare register equal to
\* c + floor(f * d_microseconds / 1_000_000), without overflow or wrap-around,
\* for every previous compare value c, frequency f and duration d; asked here
\* only where that sum is a 64-bit value at all.
C2_SetDeadlineExact ==
    (op \in DeadlineOps /\ Fits(ExactDeadline, U64Len)) =>
        (pc # "panicked" /\ NumEq(cval, ExactDeadline))

\* C3 (as claimed): after generate_interrupt_after(d) followed by
\* cancel_interrupt(), the control register has IMASK set and ENABLE still set.
C3_CancelKeepsEnable ==
    (prevOp = "generate_interrupt_after" /\ op = "cancel_interrupt") =>
        (Contains(ctl, IMASK) /\ Contains(ctl, ENABLE))

\* C3 (amended): after generate_interrupt_after(d) followed by
\* cancel_interrupt(), the control register has IMASK set and ENABLE clear:
\* cancel_interrupt writes the whole register, so it masks and disables.
C3_CancelClearsEnable ==
    (prevOp = "generate_interrupt_after" /\ op = "cancel_interrupt") =>
        (Contains(ctl, IMASK) /\ ~Contains(ctl, ENABLE))

\* An armed, unmasked timer has been cancelled.
C3_Witness ==
    /\ prevOp = "generate_interrupt_after" /\ op = "cancel_interrupt" /\ pc = "idle"
    /\ Contains(ctl0, ENABLE) /\ ~Contains(ctl0, IMASK)
    /\ ctl = IMASK

\* C4: whatever state the timer was in (idle, armed, armed-masked, fired),
\* after cancel_interrupt() the control register reads ENABLE clear, IMASK set
\* and nothing else: the timer is disabled and the interrupt is masked.
C4_CancelReturnsToIdle ==
    op = "cancel_interrupt" =>
        /\ ~Contains(ctl, ENABLE)
        /\ Contains(ctl, IMASK)
        /\ Control(ctl, cval, count) = IMASK

\* A timer that had fired while enabled and masked has been cancelled.
C4_Witness ==
    /\ op = "cancel_interrupt" /\ pc = "idle"
    /\ Contains(ctl0, OrL(OrL(ENABLE, IMASK), ISTATUS))
    /\ ~Contains(ctl, ENABLE)

\* C5 (as claimed): wait(duration) does not return before the counter has
\* advanced by at least frequency * duration_microseconds / 1_000_000 ticks
\* from its value when wait was called; asked here only of the calls whose
\* set_deadline added exactly that increment to the compare register.
C5_WaitBlocksForDuration ==
    (op = "wait" /\ pc = "idle" /\ NumEq(cval, ExactDeadline)) =>
        LessEq(AddFull(count0, ExactTable[frequency][arg.d]), count)

\* C6: once wait has enabled the timer and polls the control register, it
\* eventually returns, given that the counter keeps counting (so that ISTATUS
\* is eventually set) and the processor keeps polling.
C6_WaitTerminates == (pc = "wait_poll") ~> (pc = "idle")

\* A wait has found ISTATUS clear at least once and has returned later.
C6_Witness ==
    op = "wait" /\ pc = "idle" /\ result = Unit /\ spins > 0

\* C7: generate_interrupt_after(duration) writes the compare register first
\* and the control register afterwards, the value written having ENABLE set
\* and IMASK clear; it never reads the control register, and returns with
\* those three accesses made.
C7_GenerateInterruptOrder ==
    op = "generate_interrupt_after" =>
        /\ \A i \in 1..Len(trace) : trace[i] # <<"read", "ctl">>
        /\ pc = "panicked" => \A i \in 1..Len(trace) : trace[i][1] = "read"
        /\ pc = "gia_ctl" => trace = << <<"read", "cval">>, <<"write", "cval">> >>
        /\ pc = "idle" =>
            /\ Len(trace) = 3
            /\ SubSeq(trace, 1, 2) = << <<"read", "cval">>, <<"write", "cval">> >>
            /\ trace[3][1] = "write" /\ trace[3][2] = "ctl"
            /\ Contains(trace[3][3], ENABLE)
            /\ ~Contains(trace[3][3], IMASK)
            /\ ctl = trace[3][3]
            /\ spins = 0

\* generate_interrupt_after has moved the deadline and returned.
C7_Witness ==
    /\ op = "generate_interrupt_after" /\ pc = "idle" /\ result = Unit
    /\ cval # cval0 /\ ctl = ENABLE

\* The byte of a register at bit offset 8 * index (nothing beyond its width).
Slice(reg, index) == Limb(reg, index + 1)

\* C8 (as claimed): for every index in 0..7 and every value of the timer-ID
\* register, features(index) returns the flags decoded from the 8-bit slice of
\* the register at bit offset 8 * index, keeping exactly the IMPLEMENTED,
\* VIRTUAL and CNTEL0BASE bits (bits 0..2) of that slice.
C8_FeaturesSlice ==
    (op = "features" /\ arg.index \in 0..7) =>
        /\ pc = "idle"
        /\ result = Value(Slice(cnttidr, arg.index) % 8)

\* What frequency_mode and base_frequency return: the slot, 0 read as absent.
C9_Reads ==
    /\ (op = "frequency_mode" /\ arg.index \in 0..39) =>
        /\ pc = "idle"
        /\ result.kind = "value"
        /\ result.v.some <=> ~NumEq(cntfid[arg.index + 1], Zeros(U32Len))
        /\ result.v.some => result.v.v = cntfid[arg.index + 1]
    /\ op = "base_frequency" =>
        /\ pc = "idle"
        /\ result = Value(cntfid[1])
        /\ (\A i \in 1..Len(cntfid) : cntfid[i] = Zeros(U32Len)) =>
            result = Value(Zeros(U32Len))

\* frequency_mode(i) right after set_frequency_mode(i, f).
C9_ReadAfterWrite ==
    (/\ op = "set_frequency_mode" /\ pc = "idle"
     /\ op' = "frequency_mode" /\ arg'.index = arg.index) =>
        /\ pc' = "idle"
        /\ result' = Value(IF NumEq(arg.v, Zeros(U32Len)) THEN [some |-> FALSE]
                           ELSE [some |-> TRUE, v |-> arg.v])

\* C9: for every index in 0..39, frequency_mode(index) returns None if and
\* only if the stored slot is exactly 0, and Some(v) with the stored value v
\* otherwise; base_frequency() returns the raw value of slot 0 (0 on an
\* all-zero table); after set_frequency_mode(i, f), frequency_mode(i) is
\* Some(f) when f is nonzero and None when f is 0.
C9_FrequencyModes == [](C9_Reads) /\ [][C9_ReadAfterWrite]_vars

\* A nonzero entry written to the last slot has been read back as Some.
C9_Witness ==
    /\ prevOp = "set_frequency_mode" /\ op = "frequency_mode" /\ pc = "idle"
    /\ arg.index = 39
    /\ cntfid[40] = Ones(U32Len)
    /\ result = Value([some |-> TRUE, v |-> Ones(U32Len)])

\* The operations that take a table index, and the length of their table.
C10_IndexedOps ==
    {"frequency_mode", "set_frequency_mode", "non_secure_access",
     "set_non_secure_access", "features", "access_control", "set_access_control",
     "virtual_offset", "set_virtual_offset"}
C10_Limit(name) ==
    IF name \in {"frequency_mode", "set_frequency_mode"} THEN 40 ELSE 8

\* C10 (as claimed): a call with an out-of-range index (>= 40 for
\* frequency_mode and set_frequency_mode, >= 8 for the seven CNTCTLBase
\* operations) panics without writing a register, and a call with an in-range
\* index never panics.
C10_IndexBounds ==
    [][(nOps' = nOps + 1 /\ op' \in C10_IndexedOps) =>
        IF arg'.index < C10_Limit(op')
        THEN pc' # "panicked"
        ELSE pc' = "panicked" /\ UNCHANGED <<ctlRegs, controlRegs>>]_vars

\* C11: set_enable(b) changes only the EN bit (bit 0) of the counter control
\* register: after the call EN equals b and every other bit (SCEN, HDBG, the
\* FCREQ field, reserved bits) is as before, whatever the register held; no
\* other register of the frame is written.
C11_SetEnableFrame ==
    [][(nOps' = nOps + 1 /\ op' = "set_enable") =>
        /\ (Bit(cntcr', 0) = 1) <=> arg'.v
        /\ \A k \in 1..31 : Bit(cntcr', k) = Bit(cntcr, k)
        /\ pc' = "idle"
        /\ UNCHANGED <<cntscr, cntcv, cntid, cntfid>>]_vars

\* set_enable(false) has run on a register with every bit set.
C11_Witness ==
    /\ op = "set_enable" /\ pc = "idle" /\ arg.v = FALSE
    /\ cntcr0 = Ones(U32Len)
    /\ cntcr = <<254, 255, 255, 255>>

\* The FCREQ field (bits 8..17) of a control register value, as a number.
C12_Fcreq(v) == v[2] + 256 * (v[3] % 4)

\* C12: for every CntCr value v and every index i, set_fcreq(i), and with it
\* request_frequency(i) on the control register, yields a value whose bits
\* 8..17 are i mod 1024 and whose other bits are those of v; so for i in
\* 0..1023 the field reads back as i.
C12_SetFcreqField ==
    [][(nOps' = nOps + 1 /\ op' = "request_frequency") =>
        /\ \A k \in 0..9 : Bit(cntcr', 8 + k) = Bit(arg'.v, k)
        /\ \A k \in (0..31) \ (8..17) : Bit(cntcr', k) = Bit(cntcr, k)
        /\ LessEq(arg'.v, FromNat(1023, UsizeLen)) =>
            C12_Fcreq(cntcr') = arg'.v[1] + 256 * arg'.v[2]
        /\ pc' = "idle"]_vars

\* Index 1500 has been requested on a register with every bit set: the
\* field holds 1500 - 1024.
C12_Witness ==
    /\ op = "request_frequency" /\ pc = "idle"
    /\ arg.v = FromNat(1500, UsizeLen)
    /\ cntcr0 = Ones(U32Len)
    /\ C12_Fcreq(cntcr) = 476

\* The control register differs from its value at the call in SCEN at most.
C13_OthersKept == \A k \in (0..31) \ {2} : Bit(cntcr, k) = Bit(cntcr0, k)

\* C13: enable_scaling(s) followed by scale() reads s and leaves SCEN set;
\* disable_scaling() followed by scale() reads 0 and leaves SCEN clear; both
\* leave every control-register bit other than SCEN as it was, for any s and
\* any prior register state.
C13_ScalingRoundTrip ==
    /\ (op = "enable_scaling" /\ pc = "idle") =>
        /\ cntscr = arg.v
        /\ Bit(cntcr, 2) = 1
        /\ C13_OthersKept
    /\ (op = "disable_scaling" /\ pc = "idle") =>
        /\ cntscr = Zeros(U32Len)
        /\ Bit(cntcr, 2) = 0
        /\ C13_OthersKept
    /\ (prevOp = "enable_scaling" /\ op = "scale") =>
        /\ pc = "idle"
        /\ result = Value(scaleArg.v)
        /\ Bit(cntcr, 2) = 1
    /\ (prevOp = "disable_scaling" /\ op = "scale") =>
        /\ pc = "idle"
        /\ result = Value(Zeros(U32Len))
        /\ Bit(cntcr, 2) = 0

\* Scaling has been enabled with the largest scale on a register that had
\* every bit but SCEN set, and scale() has read it back.
C13_Witness ==
    /\ prevOp = "enable_scaling" /\ op = "scale" /\ pc = "idle"
    /\ result = Value(Ones(U32Len))
    /\ cntcr = Ones(U32Len)

\* C14: for every identification register value, scaling_implemented() is
\* true if and only if the low 4 bits are 0b0001: false for the 15 other
\* nibbles, 0 included, and whatever bits 4..31 hold.
C14_ScalingImplemented ==
    op = "scaling_implemented" =>
        /\ pc = "idle"
        /\ result = Value(cntid[1] % 16 = 1)

\* scaling_implemented() has answered true with every bit above the nibble
\* set.
C14_Witness ==
    /\ op = "scaling_implemented" /\ pc = "idle"
    /\ cntid = <<241, 255, 255, 255>>
    /\ result = Value(TRUE)

\* C20: starting from a control register with SCEN clear, in every state
\* reached by the operations of the Control driver, the states between the
\* two writes of enable_scaling and of disable_scaling included, SCEN set
\* means that the scale register holds the argument of the most recent
\* enable_scaling call; and disable_scaling zeroes the scale register only
\* once SCEN is clear.
C20_ScaleWhileScen ==
    /\ Bit(cntcr, 2) = 1 => (scaleArg.some /\ cntscr = scaleArg.v)
    /\ pc = "ds_zero" => Bit(cntcr, 2) = 0

\* A second enable_scaling has written its scale and not yet the control
\* register, scaling being enabled since the first.
C20_Witness ==
    /\ prevOp = "enable_scaling" /\ op = "enable_scaling" /\ pc = "es_scen"
    /\ Bit(cntcr, 2) = 1
    /\ cntscr = Ones(U32Len)

\* The frames that hold the two timers.
C15_TimerFrames == {"CntBase", "CntEl0Base"}

\* The distance in bytes from the physical to the virtual timer's registers
\* in a frame that has been laid out.
C15_Stride ==
    offsets[FieldIndex(layout, "cntv")] - offsets[FieldIndex(layout, "cntp")]

\* C15 (as claimed): the TimerRegs register group occupies exactly 12 bytes,
\* and the physical and virtual timer sub-blocks of a frame are 12 bytes
\* apart.
C15_TimerRegsTwelve ==
    /\ (pc = "done" /\ layout = "TimerRegs") => size = 12
    /\ (pc = "done" /\ layout \in C15_TimerFrames) => C15_Stride = 12

\* C15 (amended): the TimerRegs register group occupies exactly 16 bytes (a
\* 64-bit compare value, a 32-bit time value and a 32-bit control register
\* are 8 + 4 + 4 bytes), and the physical and virtual timer sub-blocks of a
\* frame are 16 bytes apart.
C15_TimerRegsSixteen ==
    /\ (pc = "done" /\ layout = "TimerRegs") => size = 16
    /\ (pc = "done" /\ layout \in C15_TimerFrames) => C15_Stride = 16

\* TimerRegs has been laid out: cval at 0, tval at 8, ctl at 12.
C15_Witness ==
    /\ pc = "done" /\ layout = "TimerRegs"
    /\ offsets = <<0, 8, 12>>
    /\ size = 16

\* The accesses wait makes before it polls.
C17_Prefix ==
    << <<"read", "cval">>, <<"write", "cval">>, <<"write", "ctl", <<3, 0, 0, 0>> >> >>

\* C17: wait(duration) writes the compare register, then writes the control
\* register with exactly ENABLE and IMASK set (the value 3), then only reads
\* the control register; it returns only after a control read in which
\* ISTATUS is set, and it makes no further write, so from its control write
\* until after it returns the interrupt stays masked and the timer enabled.
C17_WaitProtocol ==
    op = "wait" =>
        /\ pc = "wait_ctl" => trace = SubSeq(C17_Prefix, 1, 2)
        /\ pc \in {"wait_poll", "idle"} =>
            /\ Len(trace) >= 3
            /\ SubSeq(trace, 1, 3) = C17_Prefix
            /\ \A i \in 4..Len(trace) : trace[i] = <<"read", "ctl">>
            /\ ctl = <<3, 0, 0, 0>>
        /\ pc = "idle" =>
            /\ trace[Len(trace)] = <<"read", "ctl">>
            /\ Bit(Control(ctl, cval, count), 2) = 1

\* A wait has polled with ISTATUS clear, then with ISTATUS set, and has
\* returned with the control register still at ENABLE | IMASK.
C17_Witness ==
    /\ op = "wait" /\ pc = "idle" /\ spins > 0
    /\ Len(trace) = 4 /\ trace[4] = <<"read", "ctl">>
    /\ ctl = <<3, 0, 0, 0>>
    /\ ~LessEq(cval, count0) /\ LessEq(cval, count)

\* C18 (as claimed): the deadline is relative to the previous compare value,
\* never to the live counter: each wait or generate_interrupt_after call with
\* duration d adds floor(frequency * d_microseconds / 1_000_000) to the
\* compare register whatever the count is (so that after calls d1..dn it
\* holds its initial value plus the sum of the increments), asked here where
\* that sum is a 64-bit value at all; cancel_interrupt leaves the compare
\* register unchanged; and no Timer operation writes tval.
C18_DeadlineFromCompare ==
    [][/\ (nOps' = nOps + 1 /\ op' \in DeadlineOps
           /\ Fits(AddFull(cval, ExactTable[frequency][arg'.d]), U64Len)) =>
            /\ pc' # "panicked"
            /\ NumEq(cval', AddFull(cval, ExactTable[frequency][arg'.d]))
       /\ (nOps' = nOps + 1 /\ op' = "cancel_interrupt") => cval' = cval
       /\ nOps' = nOps => cval' = cval
       /\ tval' = tval]_vars

\* C16: at most one live view into a frame exists at a time. While a Timer
\* obtained from physical_timer() or virtual_timer() is live, the only
\* operations performed are that Timer's own: no operation of the parent
\* driver starts and no second Timer is obtained, so the live view stays
\* the same one until it is released; an operation of the parent driver
\* starts only when no Timer is live.
C16_ParentOps ==
    {"physical_count", "virtual_count", "frequency", "el0_access",
     "set_el0_access", "virtual_offset", "physical_timer", "virtual_timer"}

C16_ExclusiveView ==
    [][/\ live # "none" =>
            /\ live' \in {live, "none"}
            /\ nOps' # nOps => op' \notin C16_ParentOps
       /\ (nOps' # nOps /\ op' \in C16_ParentOps) => live = "none"]_vars

\* A Timer was obtained and released, and the parent driver used again.
C16_Witness ==
    /\ prevOp = "physical_timer"
    /\ op = "frequency"
    /\ pc = "idle"
    /\ live = "none"
    /\ result = Value(frequency)

\* C19: the timer obtained from physical_timer() works on bytes 0x20..0x2f
\* of its frame and the one from virtual_timer() on bytes 0x30..0x3f, in
\* CntBase and in CntEl0Base alike, and these are the cntp and cntv
\* sub-blocks; while a timer is live, every register of the frame outside
\* its own sub-block (the other timer's compare, time-value and control
\* registers, cntfrq, cntel0acr, cntvoff) keeps its value.
C19_Bytes(which) == IF which = "cntp" THEN 32 .. 47 ELSE 48 .. 63

C19_TimersDisjoint ==
    [][/\ TimerBlock(frame, "cntp", u64Align) = C19_Bytes("cntp")
       /\ TimerBlock(frame, "cntv", u64Align) = C19_Bytes("cntv")
       /\ C19_Bytes("cntp") \cap C19_Bytes("cntv") = {}
       /\ (nOps' # nOps /\ op' = "physical_timer") => live' = "cntp"
       /\ (nOps' # nOps /\ op' = "virtual_timer") => live' = "cntv"
       /\ live # "none" =>
            \A a \in DOMAIN mem : a \notin C19_Bytes(live) => mem'[a] = mem[a]]_vars

\* The virtual timer was armed: its control register is written, the
\* physical timer's registers are as they were at the start.
C19_Witness ==
    /\ prevOp = "virtual_timer"
    /\ op = "generate_interrupt_after"
    /\ pc = "idle"
    /\ live = "cntv"
    /\ result = Unit
    /\ ReadU32(mem, 60) = GenerateInterruptControl
    /\ ReadU64(mem, 32) = Zeros(U64Len)
    /\ ReadU32(mem, 40) = Zeros(U32Len)
    /\ ReadU32(mem, 44) = Zeros(U32Len)

====
